---- MODULE Spec2Model ----
(***************************************************************************)
(* A model of package flagex (src/flagex.go, lines 1-451): the flag        *)
(* registry (Flags), its definition calls (def, Def, Sub, Exclusive), the  *)
(* matcher (matchcombined, findflag), consume, reset and Parse.            *)
(*                                                                         *)
(* Go strings are modelled as sequences of one-character strings, so that  *)
(* TrimSpace, HasPrefix, TrimPrefix, Split and byte indexing are computed  *)
(* as the code computes them.  A *Flags pointer is a registry id, the nil  *)
(* pointer is NilReg.  A *Flag pointer is the pair (registry id, key).     *)
(* An operation on the heap F returns the heap it leaves and the error it  *)
(* returns; where Go's map iteration order decides which key an error      *)
(* names, the operation returns the set of errors it can return.           *)
(***************************************************************************)
EXTENDS Integers, Sequences, FiniteSets, TLC

VARIABLES
    regs,   \* the heap of Flags objects: regs[r] = [keys, short, last]
    args,   \* the command line handed to Parse
    ret,    \* the last call: [op, reg, err, path], err what it returned
    stack,  \* the calls of reset in progress, where reset is taken flag by flag
    procs   \* the position of each goroutine inside Parse, where two run at once

vars == <<regs, args, ret, stack, procs>>

----------------------------------------------------------------------------
(* Bounds of the model *)

\* longest command line, in tokens
MaxArgs == 3

\* longest command line of the runs over the few tokens of LongTokens
MaxLongArgs == 4

\* longest command line of the runs in which every Parse has its own
MaxSeqArgs == 2

\* most keys handed to one call of Exclusive
MaxExclKeys == 2

\* longest command line of the runs over tokens padded with spaces
MaxWsArgs == 3

\* longest command line of the runs over tokens that are dashes only
MaxDashArgs == 3

\* deepest nesting of the calls of reset the runs follow
MaxDepth == 4

\* longest command line of a Parse that runs beside another
MaxConcArgs == 2

\* longest command line of the runs that name the parent's flags in the child
MaxScopeArgs == 3

\* longest command line of the runs over a child with two Required flags
MaxReqArgs == 3

----------------------------------------------------------------------------
(* Strings *)

EmptyStr == <<>>

Dash == "-"

Space == " "

HasPrefix(s, p) == Len(s) >= Len(p) /\ SubSeq(s, 1, Len(p)) = p

TrimPrefix(s, p) == IF HasPrefix(s, p) THEN SubSeq(s, Len(p) + 1, Len(s)) ELSE s

RECURSIVE TrimLeft(_)
TrimLeft(s) == IF s # <<>> /\ Head(s) = Space THEN TrimLeft(Tail(s)) ELSE s

RECURSIVE TrimRight(_)
TrimRight(s) ==
    IF s # <<>> /\ s[Len(s)] = Space THEN TrimRight(SubSeq(s, 1, Len(s) - 1)) ELSE s

TrimSpace(s) == TrimRight(TrimLeft(s))

\* strings.Split(s, ""): one string per character
SplitChars(s) == [i \in 1..Len(s) |-> <<s[i]>>]

RECURSIVE Join(_, _)
Join(a, sep) ==
    IF a = <<>> THEN <<>>
    ELSE IF Len(a) = 1 THEN a[1]
    ELSE a[1] \o sep \o Join(Tail(a), sep)

----------------------------------------------------------------------------
(* Flag kinds, errors, the nil pointer *)

KindOptional == "optional"

KindRequired == "required"

KindSwitch == "switch"

KindSub == "sub"

FlagKinds == {KindOptional, KindRequired, KindSwitch, KindSub}

\* an error value is the tuple of its kind and its arguments; NoErr is nil
NoErr == <<"nil">>

ErrInvalid == <<"ErrInvalid">>

ErrNotFound(k) == <<"ErrNotFound", k>>

ErrDupKey(k) == <<"ErrDupKey", k>>

ErrDupShort(s) == <<"ErrDupShort", s>>

ErrExcl(other, k) == <<"ErrExcl", other, k>>

ErrRequired(k) == <<"ErrRequired", k>>

ErrReqVal(tok) == <<"ErrReqVal", tok>>

ErrSwitch(k) == <<"ErrSwitch", k>>

ErrParams == <<"ErrParams">>

ErrSub(k) == <<"ErrSub", k>>

ErrKind(e) == e[1]

\* the nil *Flags
NilReg == "nil"

\* the registries on the heap: the root, and the child handed to Sub
Root == "root"

Child == "child"

Regs == {Root, Child}

----------------------------------------------------------------------------
(* Flag and Flags *)

\* &Flag{key, shortkey, help, paramhelp, defval, typ, nil, false, false, false, ""}
\* (help and paramhelp are only printed and are left out)
NewFlag(key, shortkey, defval, typ) ==
    [key |-> key, shortkey |-> shortkey, defval |-> defval, kind |-> typ,
     sub |-> NilReg, excl |-> FALSE, parsed |-> FALSE, parsedval |-> FALSE,
     value |-> EmptyStr]

\* Flag.Value without the fall back to the default
ValueNoDefault(f) == f.value

\* Flag.Value
Value(f) == IF ~f.parsed \/ ~f.parsedval THEN f.defval ELSE f.value

\* New(): empty key and shortkey maps
New == [keys |-> <<>>, short |-> <<>>, last |-> EmptyStr]

\* Flags.Key: the flag under key and whether it exists
HasKey(F, r, key) == key \in DOMAIN F[r].keys

\* Flags.Short: f.Key(f.short[shortkey]); a missing shortkey reads "" from the map
ShortKeyOf(F, r, shortkey) ==
    IF shortkey \in DOMAIN F[r].short THEN F[r].short[shortkey] ELSE EmptyStr

HasShort(F, r, shortkey) == HasKey(F, r, ShortKeyOf(F, r, shortkey))

\* def without the test that the shortkey is bound already
defNoShortCheck(F, r, key, shortkey, defval, typ) ==
    IF key = EmptyStr THEN [regs |-> F, err |-> ErrInvalid]
    ELSE IF key \in DOMAIN F[r].keys THEN [regs |-> F, err |-> ErrDupKey(key)]
    ELSE [regs |->
            [F EXCEPT ![r].keys = (key :> NewFlag(key, shortkey, defval, typ)) @@ @,
                      ![r].short = IF shortkey # EmptyStr
                                   THEN (shortkey :> key) @@ @ ELSE @],
          err |-> NoErr]

\* def that stores the flag under its key before it looks at the shortkey
defStoresFirst(F, r, key, shortkey, defval, typ) ==
    IF key = EmptyStr THEN [regs |-> F, err |-> ErrInvalid]
    ELSE IF key \in DOMAIN F[r].keys THEN [regs |-> F, err |-> ErrDupKey(key)]
    ELSE LET G == [F EXCEPT ![r].keys = (key :> NewFlag(key, shortkey, defval, typ)) @@ @] IN
         IF shortkey # EmptyStr /\ shortkey \in DOMAIN F[r].short
         THEN [regs |-> G, err |-> ErrDupShort(shortkey)]
         ELSE [regs |-> [G EXCEPT ![r].short = IF shortkey # EmptyStr
                                              THEN (shortkey :> key) @@ @ ELSE @],
               err |-> NoErr]

\* Flags.def: the heap after the call and the error
def(F, r, key, shortkey, defval, typ) ==
    IF key = EmptyStr THEN [regs |-> F, err |-> ErrInvalid]
    ELSE IF key \in DOMAIN F[r].keys THEN [regs |-> F, err |-> ErrDupKey(key)]
    ELSE IF shortkey # EmptyStr /\ shortkey \in DOMAIN F[r].short
        THEN [regs |-> F, err |-> ErrDupShort(shortkey)]
    ELSE [regs |->
            [F EXCEPT ![r].keys = (key :> NewFlag(key, shortkey, defval, typ)) @@ @,
                      ![r].short = IF shortkey # EmptyStr
                                   THEN (shortkey :> key) @@ @ ELSE @],
          err |-> NoErr]

\* Flags.Def
Def(F, r, key, shortkey, defval, typ) == def(F, r, key, shortkey, defval, typ)

\* Flags.Switch
Switch(F, r, key, shortkey) == def(F, r, key, shortkey, EmptyStr, KindSwitch)

\* Flags.Opt
Opt(F, r, key, shortkey, defval) == def(F, r, key, shortkey, defval, KindOptional)

\* Flags.Req
Req(F, r, key, shortkey, defval) == def(F, r, key, shortkey, defval, KindRequired)

\* Flags.Sub
Sub(F, r, key, shortkey, sub) ==
    LET d == def(F, r, key, shortkey, EmptyStr, KindSub) IN
    IF d.err # NoErr THEN d
    ELSE [regs |-> [d.regs EXCEPT ![r].keys[key].sub = sub], err |-> NoErr]

\* Flags.Exclusive: clear every flag, then mark key after key until one is missing
RECURSIVE ExclusiveLoop(_, _, _)
ExclusiveLoop(F, r, ks) ==
    IF ks = <<>> THEN [regs |-> F, err |-> NoErr]
    ELSE IF ~HasKey(F, r, Head(ks)) THEN [regs |-> F, err |-> ErrNotFound(Head(ks))]
    ELSE ExclusiveLoop([F EXCEPT ![r].keys[Head(ks)].excl = TRUE], r, Tail(ks))

\* Exclusive without the loop that clears the flags first
ExclusiveNoClear(F, r, ks) == ExclusiveLoop(F, r, ks)

Exclusive(F, r, ks) ==
    ExclusiveLoop(
        [F EXCEPT ![r].keys = [k \in DOMAIN @ |-> [@[k] EXCEPT !.excl = FALSE]]],
        r, ks)

----------------------------------------------------------------------------
(* reset, the matcher, consume *)

\* the loop of reset leaving the parsed mark of each flag as it is
ResetOwnKeepsParsed(F, r) ==
    [F EXCEPT ![r].keys = [k \in DOMAIN @ |->
        [@[k] EXCEPT !.parsedval = FALSE, !.value = EmptyStr]]]

\* the loop of reset without the statement that empties the value
ResetOwnKeepsValue(F, r) ==
    [F EXCEPT ![r].keys = [k \in DOMAIN @ |->
        [@[k] EXCEPT !.parsed = FALSE, !.parsedval = FALSE]]]

\* the loop of reset that makes every flag anew from its key, short key,
\* default and kind
ResetOwnToNew(F, r) ==
    [F EXCEPT ![r].keys = [k \in DOMAIN @ |->
        NewFlag(@[k].key, @[k].shortkey, @[k].defval, @[k].kind)]]

\* every flag of r unparsed
ResetOwn(F, r) ==
    [F EXCEPT ![r].keys = [k \in DOMAIN @ |->
        [@[k] EXCEPT !.parsed = FALSE, !.parsedval = FALSE, !.value = EmptyStr]]]

\* the registries r's flags point to
SubsOf(F, r) == {F[r].keys[k].sub : k \in DOMAIN F[r].keys} \ {NilReg}

\* Flags.reset: r's flags and, through flag.sub, every registry below r
RECURSIVE reset(_, _)
RECURSIVE ResetAll(_, _)
ResetAll(F, rs) ==
    IF rs = {} THEN F
    ELSE LET s == CHOOSE x \in rs : TRUE IN ResetAll(reset(F, s), rs \ {s})

\* reset that leaves the registries below r alone
resetOwnOnly(F, r) == ResetOwn(F, r)

\* reset that reaches every registry of the program
resetEvery(F, r) == ResetOwn(ResetOwn(F, Root), Child)

reset(F, r) == ResetAll(ResetOwn(F, r), SubsOf(F, r))

\* Flags.matchcombined.  flag is the loop's local *Flag (NoFlag is nil), i its
\* index (from 1).  The body returns at the end of its first pass.
NoFlag == <<"<nil>">>

RECURSIVE matchcombined(_, _, _)
RECURSIVE MatchLoop(_, _, _, _, _)
MatchLoop(F, r, arg, i, flag) ==
    IF i > Len(arg) THEN FALSE
    ELSE LET ok == HasShort(F, r, <<arg[i]>>) IN
         IF ~ok /\ flag # NoFlag /\ F[r].keys[flag].sub # NilReg
         THEN IF Len(SubSeq(arg, i, Len(arg))) = 0 THEN FALSE
              ELSE matchcombined(F, F[r].keys[flag].sub, SubSeq(arg, i, Len(arg)))
         ELSE TRUE

matchcombined(F, r, arg) == MatchLoop(F, r, arg, 1, NoFlag)

\* Flags.findflag: [ok, key], key the flag found in r
findflag(F, r, arg) ==
    IF ~HasPrefix(arg, <<Dash>>) THEN [ok |-> FALSE, key |-> NoFlag]
    ELSE LET key == TrimPrefix(arg, <<Dash>>)
             sk  == IF matchcombined(F, r, key) THEN <<key[1]>> ELSE key
         IN  IF HasShort(F, r, sk) THEN [ok |-> TRUE, key |-> ShortKeyOf(F, r, sk)]
             ELSE IF HasPrefix(key, <<Dash>>) /\ HasKey(F, r, TrimPrefix(key, <<Dash>>))
                  THEN [ok |-> TRUE, key |-> TrimPrefix(key, <<Dash>>)]
                  ELSE [ok |-> FALSE, key |-> NoFlag]

\* the parsed exclusive flags of r
ParsedExcl(F, r) ==
    {k \in DOMAIN F[r].keys : F[r].keys[k].parsed /\ F[r].keys[k].excl}

\* Flags.consume
consume(F, r, key, value) ==
    IF ~HasKey(F, r, key) THEN [regs |-> F, errs |-> {ErrNotFound(key)}]
    ELSE IF F[r].keys[key].parsed THEN [regs |-> F, errs |-> {ErrDupKey(key)}]
    ELSE IF F[r].keys[key].excl /\ ParsedExcl(F, r) # {}
        THEN [regs |-> F, errs |-> {ErrExcl(v, key) : v \in ParsedExcl(F, r)}]
    ELSE [regs |->
            IF value # EmptyStr
            THEN [F EXCEPT ![r].keys[key].parsed = TRUE,
                           ![r].keys[key].value = value,
                           ![r].keys[key].parsedval = TRUE]
            ELSE [F EXCEPT ![r].keys[key].parsed = TRUE],
          errs |-> {NoErr}]

----------------------------------------------------------------------------
(* Parse *)
(* A call returns [regs, errs, path]: the heap it leaves, the errors it    *)
(* can return, and, as a record of the run, the scopes it went through:    *)
(* path[j] = [reg, args, at] is the j-th nested Parse, on registry reg     *)
(* with arguments args, which dispatched to the next one at token at       *)
(* (at = 0: it did not dispatch).                                          *)

Fail(F, e) == [regs |-> F, errs |-> {e}]

Failed(res) == res.errs # {NoErr}

\* a Parse of r on a that ends in r with res
Ends(res, r, a) ==
    [regs |-> res.regs, errs |-> res.errs,
     path |-> <<[reg |-> r, args |-> a, at |-> 0]>>]

\* the Required flags of r left unparsed
MissingRequired(F, r) ==
    {k \in DOMAIN F[r].keys :
        F[r].keys[k].kind = KindRequired /\ ~F[r].keys[k].parsed}

\* the loop that ends Parse without its test that some flag was parsed
ValidateNoParams(F, r) ==
    IF MissingRequired(F, r) # {}
    THEN [regs |-> F, errs |-> {ErrRequired(k) : k \in MissingRequired(F, r)}]
    ELSE [regs |-> F, errs |-> {NoErr}]

\* the loop over f.keys that ends Parse: the first unparsed Required flag the
\* iteration meets is named, in the order Go's map iteration happens to take
Validate(F, r) ==
    IF MissingRequired(F, r) # {}
    THEN [regs |-> F, errs |-> {ErrRequired(k) : k \in MissingRequired(F, r)}]
    ELSE IF \A k \in DOMAIN F[r].keys : ~F[r].keys[k].parsed
    THEN Fail(F, ErrParams)
    ELSE [regs |-> F, errs |-> {NoErr}]

\* after the loop, without the check that a saved Required flag got no value
ParseEndNoReqVal(F, r, saved) ==
    IF saved = EmptyStr THEN Validate(F, r)
    ELSE LET sf == findflag(F, r, saved) IN
         IF ~sf.ok THEN Fail(F, ErrNotFound(saved))
         ELSE LET c == consume(F, r, sf.key, EmptyStr) IN
              IF Failed(c) THEN c ELSE Validate(c.regs, r)

\* after the loop, with a saved token that resolves to no flag dropped
ParseEndDropsUnknown(F, r, saved) ==
    IF saved = EmptyStr THEN Validate(F, r)
    ELSE LET sf == findflag(F, r, saved) IN
         IF ~sf.ok THEN Validate(F, r)
         ELSE IF F[r].keys[sf.key].kind = KindRequired THEN Fail(F, ErrReqVal(saved))
         ELSE LET c == consume(F, r, sf.key, EmptyStr) IN
              IF Failed(c) THEN c ELSE Validate(c.regs, r)

\* after the loop: a token still saved is resolved with no value
ParseEnd(F, r, saved) ==
    IF saved = EmptyStr THEN Validate(F, r)
    ELSE LET sf == findflag(F, r, saved) IN
         IF ~sf.ok THEN Fail(F, ErrNotFound(saved))
         ELSE IF F[r].keys[sf.key].kind = KindRequired THEN Fail(F, ErrReqVal(saved))
         ELSE LET c == consume(F, r, sf.key, EmptyStr) IN
              IF Failed(c) THEN c ELSE Validate(c.regs, r)

\* the arguments of the child with the rest of the cluster dropped
SubArgsNoCluster(a, i, arg, comb) == SubSeq(a, i + 1, Len(a))

\* the arguments a Sub flag hands to its child: with comb the rest of the
\* cluster, one dashed token per character, then the tokens after position i
SubArgs(a, i, arg, comb) ==
    IF comb
    THEN Tail([j \in 1..Len(arg) - 1 |-> <<Dash>> \o SplitChars(Tail(arg))[j]])
            \o SubSeq(a, i + 1, Len(a))
    ELSE SubSeq(a, i + 1, Len(a))

\* Flags.Parse.  ParseLoop is the body of the token loop at index i (from 1)
\* with the saved token.
RECURSIVE Parse(_, _, _)
RECURSIVE ParseLoop(_, _, _, _, _)
\* the token loop without the test that turns a value for a Switch away
ParseLoopBindsSwitch(F, r, a, i, saved) ==
    IF i > Len(a) THEN Ends(ParseEnd(F, r, saved), r, a)
    ELSE
    LET arg == TrimSpace(a[i])
        fl  == findflag(F, r, arg)
        sf  == findflag(F, r, saved)
    IN
    IF arg = EmptyStr THEN ParseLoop(F, r, a, i + 1, saved)
    ELSE IF ~fl.ok THEN
        IF saved = EmptyStr THEN ParseLoop(F, r, a, i + 1, arg)
        ELSE IF ~sf.ok THEN Ends(Fail(F, ErrNotFound(saved)), r, a)
        ELSE LET c == consume(F, r, sf.key, arg) IN
             IF Failed(c) THEN Ends(c, r, a)
             ELSE ParseLoop(c.regs, r, a, i + 1, EmptyStr)
    ELSE IF saved = EmptyStr THEN
        IF F[r].keys[fl.key].sub # NilReg THEN
            LET comb == matchcombined(F, r, arg) IN
            IF i = Len(a) /\ comb /\ Len(Tail(arg)) = 1
            THEN Ends(Fail(F, ErrSub(fl.key)), r, a)
            ELSE LET c == Parse([F EXCEPT ![r].keys[fl.key].parsed = TRUE],
                                F[r].keys[fl.key].sub, SubArgs(a, i, arg, comb))
                 IN  [c EXCEPT !.path = <<[reg |-> r, args |-> a, at |-> i]>> \o @]
        ELSE ParseLoop(F, r, a, i + 1, a[i])
    ELSE IF ~sf.ok THEN Ends(Fail(F, ErrNotFound(saved)), r, a)
    ELSE IF F[r].keys[sf.key].kind = KindRequired
        THEN Ends(Fail(F, ErrReqVal(saved)), r, a)
    ELSE LET c == consume(F, r, sf.key, EmptyStr) IN
         IF Failed(c) THEN Ends(c, r, a)
         ELSE ParseLoop(c.regs, r, a, i + 1, arg)

\* the token loop that validates its own scope after a child returned success
ParseLoopValidatesParent(F, r, a, i, saved) ==
    IF i > Len(a) THEN Ends(ParseEnd(F, r, saved), r, a)
    ELSE
    LET arg == TrimSpace(a[i])
        fl  == findflag(F, r, arg)
        sf  == findflag(F, r, saved)
    IN
    IF arg = EmptyStr THEN ParseLoop(F, r, a, i + 1, saved)
    ELSE IF ~fl.ok THEN
        IF saved = EmptyStr THEN ParseLoop(F, r, a, i + 1, arg)
        ELSE IF ~sf.ok THEN Ends(Fail(F, ErrNotFound(saved)), r, a)
        ELSE IF F[r].keys[sf.key].kind = KindSwitch
            THEN Ends(Fail(F, ErrSwitch(sf.key)), r, a)
        ELSE LET c == consume(F, r, sf.key, arg) IN
             IF Failed(c) THEN Ends(c, r, a)
             ELSE ParseLoop(c.regs, r, a, i + 1, EmptyStr)
    ELSE IF saved = EmptyStr THEN
        IF F[r].keys[fl.key].sub # NilReg THEN
            LET comb == matchcombined(F, r, arg) IN
            IF i = Len(a) /\ comb /\ Len(Tail(arg)) = 1
            THEN Ends(Fail(F, ErrSub(fl.key)), r, a)
            ELSE LET c == Parse([F EXCEPT ![r].keys[fl.key].parsed = TRUE],
                                F[r].keys[fl.key].sub, SubArgs(a, i, arg, comb))
                     v == IF Failed(c) THEN c ELSE Validate(c.regs, r)
                 IN  [regs |-> v.regs, errs |-> v.errs,
                      path |-> <<[reg |-> r, args |-> a, at |-> i]>> \o c.path]
        ELSE ParseLoop(F, r, a, i + 1, a[i])
    ELSE IF ~sf.ok THEN Ends(Fail(F, ErrNotFound(saved)), r, a)
    ELSE IF F[r].keys[sf.key].kind = KindRequired
        THEN Ends(Fail(F, ErrReqVal(saved)), r, a)
    ELSE LET c == consume(F, r, sf.key, EmptyStr) IN
         IF Failed(c) THEN Ends(c, r, a)
         ELSE ParseLoop(c.regs, r, a, i + 1, arg)

\* the token loop that takes no token with a leading dash as a value
ParseLoopDashIsFlag(F, r, a, i, saved) ==
    IF i > Len(a) THEN Ends(ParseEnd(F, r, saved), r, a)
    ELSE
    LET arg == TrimSpace(a[i])
        fl  == findflag(F, r, arg)
        sf  == findflag(F, r, saved)
    IN
    IF arg = EmptyStr THEN ParseLoop(F, r, a, i + 1, saved)
    ELSE IF ~fl.ok THEN
        IF saved = EmptyStr THEN ParseLoop(F, r, a, i + 1, arg)
        ELSE IF ~sf.ok THEN Ends(Fail(F, ErrNotFound(saved)), r, a)
        ELSE IF HasPrefix(arg, <<Dash>>) THEN Ends(Fail(F, ErrNotFound(arg)), r, a)
        ELSE IF F[r].keys[sf.key].kind = KindSwitch
            THEN Ends(Fail(F, ErrSwitch(sf.key)), r, a)
        ELSE LET c == consume(F, r, sf.key, arg) IN
             IF Failed(c) THEN Ends(c, r, a)
             ELSE ParseLoop(c.regs, r, a, i + 1, EmptyStr)
    ELSE IF saved = EmptyStr THEN
        IF F[r].keys[fl.key].sub # NilReg THEN
            LET comb == matchcombined(F, r, arg) IN
            IF i = Len(a) /\ comb /\ Len(Tail(arg)) = 1
            THEN Ends(Fail(F, ErrSub(fl.key)), r, a)
            ELSE LET c == Parse([F EXCEPT ![r].keys[fl.key].parsed = TRUE],
                                F[r].keys[fl.key].sub, SubArgs(a, i, arg, comb))
                 IN  [c EXCEPT !.path = <<[reg |-> r, args |-> a, at |-> i]>> \o @]
        ELSE ParseLoop(F, r, a, i + 1, a[i])
    ELSE IF ~sf.ok THEN Ends(Fail(F, ErrNotFound(saved)), r, a)
    ELSE IF F[r].keys[sf.key].kind = KindRequired
        THEN Ends(Fail(F, ErrReqVal(saved)), r, a)
    ELSE LET c == consume(F, r, sf.key, EmptyStr) IN
         IF Failed(c) THEN Ends(c, r, a)
         ELSE ParseLoop(c.regs, r, a, i + 1, arg)

\* the token loop whose Sub flag parses the forwarded tokens in its own registry
ParseLoopStaysInScope(F, r, a, i, saved) ==
    IF i > Len(a) THEN Ends(ParseEnd(F, r, saved), r, a)
    ELSE
    LET arg == TrimSpace(a[i])
        fl  == findflag(F, r, arg)
        sf  == findflag(F, r, saved)
    IN
    IF arg = EmptyStr THEN ParseLoop(F, r, a, i + 1, saved)
    ELSE IF ~fl.ok THEN
        IF saved = EmptyStr THEN ParseLoop(F, r, a, i + 1, arg)
        ELSE IF ~sf.ok THEN Ends(Fail(F, ErrNotFound(saved)), r, a)
        ELSE IF F[r].keys[sf.key].kind = KindSwitch
            THEN Ends(Fail(F, ErrSwitch(sf.key)), r, a)
        ELSE LET c == consume(F, r, sf.key, arg) IN
             IF Failed(c) THEN Ends(c, r, a)
             ELSE ParseLoop(c.regs, r, a, i + 1, EmptyStr)
    ELSE IF saved = EmptyStr THEN
        IF F[r].keys[fl.key].sub # NilReg THEN
            LET comb == matchcombined(F, r, arg) IN
            IF i = Len(a) /\ comb /\ Len(Tail(arg)) = 1
            THEN Ends(Fail(F, ErrSub(fl.key)), r, a)
            ELSE LET c == Parse([F EXCEPT ![r].keys[fl.key].parsed = TRUE],
                                r, SubArgs(a, i, arg, comb))
                 IN  [c EXCEPT !.path = <<[reg |-> r, args |-> a, at |-> i]>> \o @]
        ELSE ParseLoop(F, r, a, i + 1, a[i])
    ELSE IF ~sf.ok THEN Ends(Fail(F, ErrNotFound(saved)), r, a)
    ELSE IF F[r].keys[sf.key].kind = KindRequired
        THEN Ends(Fail(F, ErrReqVal(saved)), r, a)
    ELSE LET c == consume(F, r, sf.key, EmptyStr) IN
         IF Failed(c) THEN Ends(c, r, a)
         ELSE ParseLoop(c.regs, r, a, i + 1, arg)

ParseLoop(F, r, a, i, saved) ==
    IF i > Len(a) THEN Ends(ParseEnd(F, r, saved), r, a)
    ELSE
    LET arg == TrimSpace(a[i])
        fl  == findflag(F, r, arg)
        sf  == findflag(F, r, saved)
    IN
    IF arg = EmptyStr THEN ParseLoop(F, r, a, i + 1, saved)
    ELSE IF ~fl.ok THEN
        IF saved = EmptyStr THEN ParseLoop(F, r, a, i + 1, arg)
        ELSE IF ~sf.ok THEN Ends(Fail(F, ErrNotFound(saved)), r, a)
        ELSE IF F[r].keys[sf.key].kind = KindSwitch
            THEN Ends(Fail(F, ErrSwitch(sf.key)), r, a)
        ELSE LET c == consume(F, r, sf.key, arg) IN
             IF Failed(c) THEN Ends(c, r, a)
             ELSE ParseLoop(c.regs, r, a, i + 1, EmptyStr)
    ELSE IF saved = EmptyStr THEN
        IF F[r].keys[fl.key].sub # NilReg THEN
            LET comb == matchcombined(F, r, arg) IN
            IF i = Len(a) /\ comb /\ Len(Tail(arg)) = 1
            THEN Ends(Fail(F, ErrSub(fl.key)), r, a)
            ELSE LET c == Parse([F EXCEPT ![r].keys[fl.key].parsed = TRUE],
                                F[r].keys[fl.key].sub, SubArgs(a, i, arg, comb))
                 IN  [c EXCEPT !.path = <<[reg |-> r, args |-> a, at |-> i]>> \o @]
        ELSE ParseLoop(F, r, a, i + 1, a[i])
    ELSE IF ~sf.ok THEN Ends(Fail(F, ErrNotFound(saved)), r, a)
    ELSE IF F[r].keys[sf.key].kind = KindRequired
        THEN Ends(Fail(F, ErrReqVal(saved)), r, a)
    ELSE LET c == consume(F, r, sf.key, EmptyStr) IN
         IF Failed(c) THEN Ends(c, r, a)
         ELSE ParseLoop(c.regs, r, a, i + 1, arg)

\* Parse that does not reset before the token loop
ParseNoReset(F, r, a) ==
    ParseLoop([F EXCEPT ![r].last = Join(a, <<Space>>)], r, a, 1, EmptyStr)

Parse(F, r, a) ==
    ParseLoop(reset([F EXCEPT ![r].last = Join(a, <<Space>>)], r), r, a, 1, EmptyStr)

\* One pass of the token loop of Parse, for the runs that take Parse a token
\* at a time: what the pass at index i does with the heap F.  kind is "next"
\* (the loop goes on with saved), "ret" (Parse returns one of errs) or "call"
\* (the Sub flag is marked and Parse is called on reg with args).
LoopStep(F, r, a, i, saved) ==
    LET arg == TrimSpace(a[i])
        fl  == findflag(F, r, arg)
        sf  == findflag(F, r, saved)
        Go(G, s) == [kind |-> "next", regs |-> G, errs |-> {NoErr}, saved |-> s,
                     reg |-> r, args |-> a]
        Return(c) == [kind |-> "ret", regs |-> c.regs, errs |-> c.errs,
                      saved |-> saved, reg |-> r, args |-> a]
    IN
    IF arg = EmptyStr THEN Go(F, saved)
    ELSE IF ~fl.ok THEN
        IF saved = EmptyStr THEN Go(F, arg)
        ELSE IF ~sf.ok THEN Return(Fail(F, ErrNotFound(saved)))
        ELSE IF F[r].keys[sf.key].kind = KindSwitch
            THEN Return(Fail(F, ErrSwitch(sf.key)))
        ELSE LET c == consume(F, r, sf.key, arg) IN
             IF Failed(c) THEN Return(c) ELSE Go(c.regs, EmptyStr)
    ELSE IF saved = EmptyStr THEN
        IF F[r].keys[fl.key].sub # NilReg THEN
            LET comb == matchcombined(F, r, arg) IN
            IF i = Len(a) /\ comb /\ Len(Tail(arg)) = 1
            THEN Return(Fail(F, ErrSub(fl.key)))
            ELSE [kind |-> "call",
                  regs |-> [F EXCEPT ![r].keys[fl.key].parsed = TRUE],
                  errs |-> {NoErr}, saved |-> EmptyStr,
                  reg |-> F[r].keys[fl.key].sub, args |-> SubArgs(a, i, arg, comb)]
        ELSE Go(F, a[i])
    ELSE IF ~sf.ok THEN Return(Fail(F, ErrNotFound(saved)))
    ELSE IF F[r].keys[sf.key].kind = KindRequired
        THEN Return(Fail(F, ErrReqVal(saved)))
    ELSE LET c == consume(F, r, sf.key, EmptyStr) IN
         IF Failed(c) THEN Return(c) ELSE Go(c.regs, arg)

\* Flags.Parsed: the map of the parsed flags of r; a flag with a child maps to
\* the child's map, a flag parsed with a value to its Value(), another to nil
RECURSIVE FlagsParsed(_, _)
FlagsParsed(F, r) ==
    [k \in {x \in DOMAIN F[r].keys : F[r].keys[x].parsed} |->
        IF F[r].keys[k].sub # NilReg THEN <<"map", FlagsParsed(F, F[r].keys[k].sub)>>
        ELSE IF F[r].keys[k].parsedval THEN <<"string", Value(F[r].keys[k])>>
        ELSE <<"nil">>]

----------------------------------------------------------------------------
(* The registries the model builds, through the definition calls, and the  *)
(* command lines it parses.  Root holds a Sub flag over Child and one flag *)
(* of its own; Child holds two flags; the kinds and the exclusive set vary.*)

SyncKey == <<"s", "y">>

VerboseKey == <<"v", "e">>

InstallKey == <<"i", "n">>

ModeKey == <<"m", "o">>

InstallDefault == <<"p", "k", "g">>

ModeDefault == <<"b", "e", "s", "t">>

\* the kinds the varying flags take
InstallKinds == {KindOptional, KindRequired, KindSwitch}

VerboseKinds == {KindSwitch, KindRequired}

\* with excl, Child's exclusive set is {install, mode} and Root's {sync, verbose}
Build(k1, k3, excl) ==
    LET F0 == [r \in Regs |-> New]
        F1 == Def(F0, Child, InstallKey, <<"i">>, InstallDefault, k1).regs
        F2 == Opt(F1, Child, ModeKey, <<"m">>, ModeDefault).regs
        F3 == IF excl THEN Exclusive(F2, Child, <<InstallKey, ModeKey>>).regs ELSE F2
        F4 == Sub(F3, Root, SyncKey, <<"S">>, Child).regs
        F5 == Def(F4, Root, VerboseKey, <<"v">>, EmptyStr, k3).regs
    IN  IF excl THEN Exclusive(F5, Root, <<SyncKey, VerboseKey>>).regs ELSE F5

Tokens ==
    { <<"-", "S">>, <<"-", "-", "s", "y">>,
      <<"-", "v">>,
      <<"-", "i">>, <<"-", "-", "i", "n">>,
      <<"-", "m">>,
      <<"-", "S", "i">>, <<"-", "S", "i", "m">>,
      <<"-", "i", "m">>,
      <<"x">>,
      EmptyStr }

RECURSIVE SeqsUpTo(_, _)
SeqsUpTo(S, n) ==
    IF n = 0 THEN {<<>>}
    ELSE LET shorter == SeqsUpTo(S, n - 1) IN
         shorter \cup {Append(q, t) : q \in shorter, t \in S}

ArgSeqs == SeqsUpTo(Tokens, MaxArgs)

NoCall == [op |-> "none", reg |-> NilReg, err |-> NoErr, path |-> <<>>]

\* every call is one step: no call of reset is in progress and no goroutine is
\* inside Parse
Atomic == stack = <<>> /\ procs = <<>>

Init ==
    /\ \E k1 \in InstallKinds, k3 \in VerboseKinds, excl \in BOOLEAN :
            regs = Build(k1, k3, excl)
    /\ args \in ArgSeqs
    /\ ret = NoCall
    /\ Atomic

\* a call of r.Parse(args)
ParseCall(r) ==
    LET res == Parse(regs, r, args) IN
    /\ \E e \in res.errs :
         ret' = [op |-> "Parse", reg |-> r, err |-> e, path |-> res.path]
    /\ regs' = res.regs
    /\ UNCHANGED <<args, stack, procs>>

Next == \E r \in Regs : ParseCall(r)

Spec == Init /\ [][Next]_vars

\* Longer command lines over fewer tokens: a flag, a Sub flag alone and with a
\* cluster, a plain token.
LongTokens ==
    { <<"-", "v">>, <<"-", "S">>, <<"-", "S", "i">>, <<"x">> }

InitLong ==
    /\ \E k1 \in InstallKinds, k3 \in VerboseKinds, excl \in BOOLEAN :
            regs = Build(k1, k3, excl)
    /\ args \in SeqsUpTo(LongTokens, MaxLongArgs)
    /\ ret = NoCall
    /\ Atomic

SpecLong == InitLong /\ [][Next]_vars

\* Sequences of Parse calls, each with a command line of its own.
SeqTokens ==
    { <<"-", "S", "i">>, <<"-", "v">>, <<"-", "i">>, <<"x">> }

InitSeq ==
    /\ \E k1 \in InstallKinds, k3 \in VerboseKinds, excl \in BOOLEAN :
            regs = Build(k1, k3, excl)
    /\ args = <<>>
    /\ ret = NoCall
    /\ Atomic

\* a call of r.Parse(a)
ParseArgs(r) ==
    \E a \in SeqsUpTo(SeqTokens, MaxSeqArgs) :
        LET res == Parse(regs, r, a) IN
        /\ \E e \in res.errs :
             ret' = [op |-> "Parse", reg |-> r, err |-> e, path |-> res.path]
        /\ regs' = res.regs
        /\ args' = a
        /\ UNCHANGED <<stack, procs>>

NextSeq == \E r \in Regs : ParseArgs(r)

SpecSeq == InitSeq /\ [][NextSeq]_vars

\* Command lines whose tokens carry leading or trailing spaces.
WsTokens ==
    { <<"-", "v">>, <<" ", "-", "v">>, <<"-", "v", " ">>,
      <<"-", "i">>, <<" ", "-", "i", " ">>,
      <<"x">>, <<" ", "x">>,
      <<" ">>,
      <<"-", "S">>, <<" ", "-", "S", "i">> }

InitWs ==
    /\ \E k1 \in InstallKinds, k3 \in VerboseKinds, excl \in BOOLEAN :
            regs = Build(k1, k3, excl)
    /\ args \in SeqsUpTo(WsTokens, MaxWsArgs)
    /\ ret = NoCall
    /\ Atomic

SpecWs == InitWs /\ [][Next]_vars

\* Command lines with tokens made of dashes only and a dashed token that
\* names no flag, between flags and a plain token.
DashTokens ==
    { <<"-">>, <<"-", "-">>, <<"-", "-", "?">>,
      <<"x">>,
      <<"-", "v">>, <<"-", "i">>, <<"-", "m">>, <<"-", "S">> }

InitDash ==
    /\ \E k1 \in InstallKinds, k3 \in VerboseKinds, excl \in BOOLEAN :
            regs = Build(k1, k3, excl)
    /\ args \in SeqsUpTo(DashTokens, MaxDashArgs)
    /\ ret = NoCall
    /\ Atomic

SpecDash == InitDash /\ [][Next]_vars

\* Parse with reset taken one flag at a time, over registries whose Sub flags
\* are handed any registry: Sub takes whatever *Flags it is given, the
\* registry it is called on included.
BackKey == <<"b", "a">>

\* Root's Sub flag is over t1; Child has a Sub flag over t2 unless t2 is nil
BuildOver(t1, t2) ==
    LET F0 == [r \in Regs |-> New]
        F1 == Opt(F0, Child, InstallKey, <<"i">>, InstallDefault).regs
        F2 == Opt(F1, Child, ModeKey, <<"m">>, ModeDefault).regs
        F3 == IF t2 = NilReg THEN F2
              ELSE Sub(F2, Child, BackKey, <<"b">>, t2).regs
        F4 == Sub(F3, Root, SyncKey, <<"S">>, t1).regs
    IN  Switch(F4, Root, VerboseKey, <<"v">>).regs

ResetTokens == { <<"-", "v">>, <<"-", "i">>, <<"-", "S">> }

InitReset ==
    /\ \E t1 \in Regs, t2 \in Regs \cup {NilReg} : regs = BuildOver(t1, t2)
    /\ args \in SeqsUpTo(ResetTokens, 1)
    /\ ret = NoCall
    /\ stack = <<>>
    /\ procs = <<>>

\* a call of reset on r: the flags its loop has still to visit
Frame(F, r) == [reg |-> r, todo |-> DOMAIN F[r].keys]

\* r.Parse(args) is called: it stores the command line and calls reset
ParseEnter(r) ==
    /\ stack = <<>>
    /\ regs' = [regs EXCEPT ![r].last = Join(args, <<Space>>)]
    /\ stack' = <<Frame(regs, r)>>
    /\ ret' = NoCall
    /\ UNCHANGED <<args, procs>>

\* one pass of the loop of the innermost call of reset, in the order the map
\* iteration takes: flag k is cleared and, if it has a child, reset is called
\* on the child
ResetFlag ==
    /\ stack # <<>>
    /\ LET n   == Len(stack)
           top == stack[n]
       IN  \E k \in top.todo :
             LET sub  == regs[top.reg].keys[k].sub
                 rest == [stack EXCEPT ![n].todo = @ \ {k}]
             IN
             /\ regs' = [regs EXCEPT ![top.reg].keys[k].parsed = FALSE,
                                     ![top.reg].keys[k].parsedval = FALSE,
                                     ![top.reg].keys[k].value = EmptyStr]
             /\ IF sub # NilReg
                THEN /\ n < MaxDepth
                     /\ stack' = Append(rest, Frame(regs, sub))
                ELSE stack' = rest
    /\ UNCHANGED <<args, ret, procs>>

\* the innermost call of reset has visited every flag and returns to the
\* loop of the call that made it
ResetReturn ==
    /\ Len(stack) > 1
    /\ stack[Len(stack)].todo = {}
    /\ stack' = SubSeq(stack, 1, Len(stack) - 1)
    /\ UNCHANGED <<regs, args, ret, procs>>

\* reset has returned to Parse, which runs its token loop and returns
ParseRun ==
    /\ Len(stack) = 1
    /\ stack[1].todo = {}
    /\ LET r   == stack[1].reg
           res == ParseLoop(regs, r, args, 1, EmptyStr)
       IN  /\ \E e \in res.errs :
                ret' = [op |-> "Parse", reg |-> r, err |-> e, path |-> res.path]
           /\ regs' = res.regs
    /\ stack' = <<>>
    /\ UNCHANGED <<args, procs>>

NextReset ==
    \/ \E r \in Regs : ParseEnter(r)
    \/ ResetFlag
    \/ ResetReturn
    \/ ParseRun

SpecReset == InitReset /\ [][NextReset]_vars

\* Two goroutines that call Parse with no synchronisation.  A goroutine is
\* scheduled between the passes of its token loop; entering a Parse (f.last,
\* f.reset()) is a step of its own, for the call made by the program and for
\* the call a Sub flag makes.  Root's flag on SyncKey is the Sub flag over
\* Child (linked) or an Optional flag, which leaves the registries apart.
Procs == {1, 2}

BuildApart ==
    LET F0 == [r \in Regs |-> New]
        F1 == Opt(F0, Child, InstallKey, <<"i">>, InstallDefault).regs
        F2 == Opt(F1, Child, ModeKey, <<"m">>, ModeDefault).regs
        F3 == Opt(F2, Root, SyncKey, <<"S">>, EmptyStr).regs
    IN  Switch(F3, Root, VerboseKey, <<"v">>).regs

ConcTokens == { <<"-", "v">>, <<"-", "i">>, <<"-", "S", "i">>, <<"x">> }

\* a goroutine that has not called Parse
Idle ==
    [pc |-> "idle", top |-> NilReg, targs |-> <<>>, reg |-> NilReg, a |-> <<>>,
     i |-> 0, saved |-> EmptyStr, err |-> NoErr]

InitConc ==
    /\ regs \in {Build(KindOptional, KindSwitch, FALSE), BuildApart}
    /\ args = <<>>
    /\ ret = NoCall
    /\ stack = <<>>
    /\ procs = [p \in Procs |-> Idle]

\* goroutine p calls r.Parse(a)
Call(p) ==
    /\ procs[p].pc = "idle"
    /\ \E r \in Regs, a \in SeqsUpTo(ConcTokens, MaxConcArgs) :
            procs' = [procs EXCEPT ![p] =
                        [pc |-> "enter", top |-> r, targs |-> a, reg |-> r, a |-> a,
                         i |-> 1, saved |-> EmptyStr, err |-> NoErr]]
    /\ UNCHANGED <<regs, args, ret, stack>>

\* the Parse that p has called stores its command line and resets
Enter(p) ==
    /\ procs[p].pc = "enter"
    /\ regs' = reset([regs EXCEPT ![procs[p].reg].last = Join(procs[p].a, <<Space>>)],
                     procs[p].reg)
    /\ procs' = [procs EXCEPT ![p].pc = "loop"]
    /\ UNCHANGED <<args, ret, stack>>

\* one pass of the token loop of p
Step(p) ==
    /\ procs[p].pc = "loop"
    /\ procs[p].i <= Len(procs[p].a)
    /\ LET st == LoopStep(regs, procs[p].reg, procs[p].a, procs[p].i, procs[p].saved) IN
       /\ regs' = st.regs
       /\ \E e \in st.errs :
            procs' = [procs EXCEPT ![p] =
               IF st.kind = "next"
               THEN [@ EXCEPT !.i = @ + 1, !.saved = st.saved]
               ELSE IF st.kind = "call"
               THEN [@ EXCEPT !.pc = "enter", !.reg = st.reg, !.a = st.args,
                              !.i = 1, !.saved = EmptyStr]
               ELSE [@ EXCEPT !.pc = "done", !.err = e]]
    /\ UNCHANGED <<args, ret, stack>>

\* the loop of p is over: the code after it runs and Parse returns
Finish(p) ==
    /\ procs[p].pc = "loop"
    /\ procs[p].i > Len(procs[p].a)
    /\ LET res == ParseEnd(regs, procs[p].reg, procs[p].saved) IN
       /\ regs' = res.regs
       /\ \E e \in res.errs : procs' = [procs EXCEPT ![p].pc = "done", ![p].err = e]
    /\ UNCHANGED <<args, ret, stack>>

NextConc == \E p \in Procs : Call(p) \/ Enter(p) \/ Step(p) \/ Finish(p)

SpecConc == InitConc /\ [][NextConc]_vars

\* Command lines that name flags of Root after its Sub flag, alone and in a
\* cluster, so that the child meets keys only its parent defines, and a
\* cluster with a character that no registry defines.
ScopeTokens ==
    { <<"-", "S">>, <<"-", "S", "v">>, <<"-", "S", "S">>, <<"-", "S", "i">>,
      <<"-", "v">>, <<"-", "-", "v", "e">>, <<"-", "v", "?">>,
      <<"-", "i">>, <<"x">> }

InitScope ==
    /\ \E k1 \in InstallKinds, k3 \in VerboseKinds, excl \in BOOLEAN :
            regs = Build(k1, k3, excl)
    /\ args \in SeqsUpTo(ScopeTokens, MaxScopeArgs)
    /\ ret = NoCall
    /\ Atomic

SpecScope == InitScope /\ [][Next]_vars

\* Registries whose child has two Required flags, so that the loop that ends
\* Parse can meet more than one unparsed Required flag.
BuildReq(k3) ==
    LET F0 == [r \in Regs |-> New]
        F1 == Req(F0, Child, InstallKey, <<"i">>, InstallDefault).regs
        F2 == Req(F1, Child, ModeKey, <<"m">>, ModeDefault).regs
        F3 == Sub(F2, Root, SyncKey, <<"S">>, Child).regs
    IN  Def(F3, Root, VerboseKey, <<"v">>, EmptyStr, k3).regs

ReqTokens ==
    { <<"-", "i">>, <<"-", "m">>, <<"x">>, <<"-", "S">>, <<"-", "v">> }

InitReq ==
    /\ \E k3 \in VerboseKinds : regs = BuildReq(k3)
    /\ args \in SeqsUpTo(ReqTokens, MaxReqArgs)
    /\ ret = NoCall
    /\ Atomic

SpecReq == InitReq /\ [][Next]_vars

\* The definition calls.  Child is built with its two flags; Root starts
\* empty and takes every definition call, over the keys "", "ve", "sy" and
\* the shortkeys "", "v"; Exclusive is called on both.  args holds the strings
\* handed to the call.
DefKeys == {EmptyStr, VerboseKey, SyncKey}

DefShorts == {EmptyStr, <<"v">>}

ExclKeys == {VerboseKey, SyncKey, InstallKey}

InitDef ==
    /\ regs = LET F0 == [r \in Regs |-> New]
                  F1 == Opt(F0, Child, InstallKey, <<"i">>, InstallDefault).regs
              IN  Opt(F1, Child, ModeKey, <<"m">>, ModeDefault).regs
    /\ args = <<>>
    /\ ret = NoCall
    /\ Atomic

\* what a definition call leaves: the heap, the error, the strings it was given
Called(op, r, res, a) ==
    /\ regs' = res.regs
    /\ ret' = [op |-> op, reg |-> r, err |-> res.err, path |-> <<>>]
    /\ args' = a
    /\ UNCHANGED <<stack, procs>>

DefCall(r) ==
    \E key \in DefKeys, shortkey \in DefShorts, typ \in {KindOptional, KindSub} :
        Called("Def", r, Def(regs, r, key, shortkey, InstallDefault, typ),
               <<key, shortkey>>)

SwitchCall(r) ==
    \E key \in DefKeys, shortkey \in DefShorts :
        Called("Switch", r, Switch(regs, r, key, shortkey), <<key, shortkey>>)

OptCall(r) ==
    \E key \in DefKeys, shortkey \in DefShorts :
        Called("Opt", r, Opt(regs, r, key, shortkey, InstallDefault), <<key, shortkey>>)

ReqCall(r) ==
    \E key \in DefKeys, shortkey \in DefShorts :
        Called("Req", r, Req(regs, r, key, shortkey, InstallDefault), <<key, shortkey>>)

SubCall(r) ==
    \E key \in DefKeys, shortkey \in DefShorts :
        Called("Sub", r, Sub(regs, r, key, shortkey, Child), <<key, shortkey>>)

ExclusiveCall(r) ==
    \E ks \in SeqsUpTo(ExclKeys, MaxExclKeys) :
        Called("Exclusive", r, Exclusive(regs, r, ks), ks)

NextDef ==
    \/ DefCall(Root)
    \/ SwitchCall(Root)
    \/ OptCall(Root)
    \/ ReqCall(Root)
    \/ SubCall(Root)
    \/ \E r \in Regs : ExclusiveCall(r)

SpecDef == InitDef /\ [][NextDef]_vars

----------------------------------------------------------------------------
(* Vocabulary of the properties *)

\* the last call was a Parse
Parsed == ret.op = "Parse"

Succeeded == ret.err = NoErr

NonEmpty(t) == t # EmptyStr

\* the tokens the loop looks at: trimmed, the empty ones skipped
Eff(a) == SelectSeq([i \in 1..Len(a) |-> TrimSpace(a[i])], NonEmpty)

\* token t resolves to a flag of r; the flag it resolves to
Resolves(r, t) == findflag(regs, r, t).ok

FlagOf(r, t) == findflag(regs, r, t).key

\* the tokens of scope p before the one that dispatched
Own(p) == Eff(IF p.at = 0 THEN p.args ELSE SubSeq(p.args, 1, p.at - 1))

\* the scopes of the last Parse
Scopes == {ret.path[j] : j \in 1..Len(ret.path)}

\* per flag, what a parse leaves: parsed, parsedval, value
ParseState(F) ==
    [r \in Regs |-> [k \in DOMAIN F[r].keys |->
        <<F[r].keys[k].parsed, F[r].keys[k].parsedval, F[r].keys[k].value>>]]

ErrKinds(errs) == {ErrKind(e) : e \in errs}

NoSubFlags(r) ==
    \A k \in DOMAIN regs[r].keys :
        regs[r].keys[k].kind # KindSub /\ regs[r].keys[k].sub = NilReg

\* <<"-", x>> and <<"-", "-">> \o key
ShortTok(x) == <<Dash>> \o x

LongTok(key) == <<Dash, Dash>> \o key

----------------------------------------------------------------------------
(* C1 *)

\* C1: for a registry without Sub flags, after a Parse that succeeded: an
\* Optional or Required flag whose token is followed by a token that resolves
\* to no flag is parsed and Value() is that token; an Optional or Switch flag
\* named with no value is parsed, has no parsed value and Value() is its
\* default; a flag no token names is not parsed and Value() is its default.
C1_ValuesAfterSuccess ==
    (Parsed /\ Succeeded /\ NoSubFlags(ret.reg)) =>
        LET r == ret.reg
            a == Eff(args)
        IN  \A k \in DOMAIN regs[r].keys :
              LET f == regs[r].keys[k] IN
              /\ \A i \in 1..Len(a) :
                    (Resolves(r, a[i]) /\ FlagOf(r, a[i]) = k) =>
                        IF i < Len(a) /\ ~Resolves(r, a[i + 1])
                        THEN f.kind \in {KindOptional, KindRequired} =>
                                f.parsed /\ f.parsedval /\ Value(f) = a[i + 1]
                        ELSE f.kind \in {KindOptional, KindSwitch} =>
                                f.parsed /\ ~f.parsedval /\ Value(f) = f.defval
              /\ (\A i \in 1..Len(a) : ~(Resolves(r, a[i]) /\ FlagOf(r, a[i]) = k)) =>
                    ~f.parsed /\ Value(f) = f.defval

\* a successful Parse of Child that bound a value to one flag and parsed the
\* other with none
C1_Witness ==
    /\ Parsed /\ Succeeded /\ ret.reg = Child
    /\ args = << ShortTok(<<"i">>), <<"x">>, ShortTok(<<"m">>) >>
    /\ Value(regs[Child].keys[InstallKey]) = <<"x">>
    /\ Value(regs[Child].keys[ModeKey]) = ModeDefault

----------------------------------------------------------------------------
(* C2 *)

\* the token after position i of the tokens E of a scope resolves to no flag
FollowedByValue(r, E, i) == i < Len(E) /\ ~Resolves(r, E[i + 1])

\* position i of E holds the token of a Required flag of r
RequiredAt(r, E, i) ==
    Resolves(r, E[i]) /\ regs[r].keys[FlagOf(r, E[i])].kind = KindRequired

\* flag k of r holds v as its parsed value
Bound(r, k, v) ==
    LET f == regs[r].keys[k] IN f.parsed /\ f.parsedval /\ f.value = v

\* the tokens of E before position i raise no error in r: parsed alone they
\* stay in r and at most the validation that ends Parse complains
PrefixOK(r, E, i) ==
    LET res == Parse(regs, r, SubSeq(E, 1, i - 1)) IN
    /\ Len(res.path) = 1
    /\ ErrKinds(res.errs) \subseteq {"nil", "ErrRequired", "ErrParams"}

\* C2 as stated: a Required flag whose token is followed by a token that
\* resolves to a flag of the scope, or that ends the scope, makes Parse fail
\* with RequiresValue; followed by a token that resolves to no flag it binds
\* that token as its value and RequiresValue is not raised.
C2_AsStated ==
    Parsed =>
        \A p \in Scopes :
            LET r == p.reg
                E == Own(p)
            IN  \A i \in 1..Len(E) :
                  RequiredAt(r, E, i) =>
                    IF FollowedByValue(r, E, i)
                    THEN /\ Bound(r, FlagOf(r, E[i]), E[i + 1])
                         /\ ErrKind(ret.err) # "ErrReqVal"
                    ELSE ErrKind(ret.err) = "ErrReqVal"

\* C2, amended: when the tokens before the token of a Required flag raise no
\* error, Parse fails with RequiresValue if the next token resolves to a flag
\* of the scope or there is none; if the next token resolves to no flag it is
\* bound as the value of the flag, unless consume rejects the flag as a
\* duplicate or as exclusive.
C2_RequiredValue ==
    Parsed =>
        \A p \in Scopes :
            LET r == p.reg
                E == Own(p)
            IN  \A i \in 1..Len(E) :
                  (RequiredAt(r, E, i) /\ PrefixOK(r, E, i)) =>
                    IF FollowedByValue(r, E, i)
                    THEN \/ Bound(r, FlagOf(r, E[i]), E[i + 1])
                         \/ ErrKind(ret.err) \in {"ErrDupKey", "ErrExcl"}
                    ELSE ErrKind(ret.err) = "ErrReqVal"

\* Child with install Required: "-m -i" ends on the Required flag and fails
\* with RequiresValue, "-m -i x" binds x
C2_Witness ==
    /\ Parsed /\ ret.reg = Child
    /\ regs[Child].keys[InstallKey].kind = KindRequired
    /\ \/ /\ args = << ShortTok(<<"m">>), ShortTok(<<"i">>) >>
          /\ ret.err = ErrReqVal(ShortTok(<<"i">>))
       \/ /\ args = << ShortTok(<<"m">>), ShortTok(<<"i">>), <<"x">> >>
          /\ Bound(Child, InstallKey, <<"x">>)
          /\ Succeeded

----------------------------------------------------------------------------
(* C3, C4, C5 *)

\* the tokens of scope p, the one that dispatched included
OwnAll(p) == Eff(IF p.at = 0 THEN p.args ELSE SubSeq(p.args, 1, p.at))

\* the exclusive flags of r; those a token of T names
ExclSet(r) == {k \in DOMAIN regs[r].keys : regs[r].keys[k].excl}

NamedIn(r, T) == {FlagOf(r, T[i]) : i \in {j \in 1..Len(T) : Resolves(r, T[j])}}

\* C3: in a registry whose exclusive set is {a, b}, no Parse succeeds on an
\* input that names both a and b in one scope (the claim: it fails, with the
\* Exclusive error).
C3_AsStated ==
    Parsed =>
        \A p \in Scopes :
            (Cardinality(ExclSet(p.reg)) = 2
                /\ ExclSet(p.reg) \subseteq NamedIn(p.reg, OwnAll(p)))
            => ~Succeeded

\* C4: Parse of no tokens, or of empty tokens only, fails with NoArguments
\* (ErrParams), whatever the registry declares.
C4_AsStated ==
    (Parsed /\ Eff(args) = <<>>) => ErrKind(ret.err) = "ErrParams"

\* C5: after a Parse that succeeded, every Required flag of the root scope
\* and of every scope a Sub flag dispatched to is parsed.
C5_AsStated ==
    (Parsed /\ Succeeded) => \A p \in Scopes : MissingRequired(regs, p.reg) = {}

----------------------------------------------------------------------------
(* C6 *)

\* t is "-" S c1 .. cn, n >= 1, S the short key of a flag of r with a child
IsSubCluster(r, t) ==
    /\ Len(t) >= 3
    /\ t[1] = Dash
    /\ HasShort(regs, r, <<t[2]>>)
    /\ regs[r].keys[ShortKeyOf(regs, r, <<t[2]>>)].sub # NilReg

\* "-S", "-c1", .., "-cn"
SplitCluster(t) == [j \in 1..Len(t) - 1 |-> <<Dash, t[j + 1]>>]

\* C6: a Parse of "-Sc1..cn" followed by tokens R has the outcome, and leaves
\* the parsed state, of the Parse of "-S", "-c1", .., "-cn" followed by R, and
\* the child scope is handed "-c1", .., "-cn" followed by R.
C6_ClusterSplit ==
    (Parsed /\ args # <<>> /\ IsSubCluster(ret.reg, Head(args))) =>
        LET split == Parse(regs, ret.reg, SplitCluster(Head(args)) \o Tail(args)) IN
        /\ ret.err \in split.errs
        /\ ParseState(regs) = ParseState(split.regs)
        /\ Len(ret.path) = 2
        /\ ret.path[2].args = Tail(SplitCluster(Head(args))) \o Tail(args)
        /\ ret.path[2] = split.path[2]

\* "-Sim x" parsed by Root: Child is handed "-i", "-m", "x" and succeeds
C6_Witness ==
    /\ Parsed /\ Succeeded /\ ret.reg = Root
    /\ args = << <<"-", "S", "i", "m">>, <<"x">> >>
    /\ Bound(Child, ModeKey, <<"x">>)
    /\ regs[Child].keys[InstallKey].parsed

----------------------------------------------------------------------------
(* C7, C8, C9, C10 *)

\* the tokens of the first scope of the last Parse, as positions of args
FirstScope == 1..(IF ret.path[1].at = 0 THEN Len(args) ELSE ret.path[1].at)

\* the other form of the token t of the flag k: long for short, short for long
OtherForm(r, k, t) ==
    IF t = LongTok(k) THEN ShortTok(regs[r].keys[k].shortkey) ELSE LongTok(k)

\* C7: replacing, in the scope of the registry parsed, the short form -x of a
\* flag by its long form --k, or the reverse, changes neither the error kind
\* Parse returns nor the parsed flags and values.
C7_AsStated ==
    Parsed =>
        LET r == ret.reg IN
        \A i \in FirstScope : \A k \in DOMAIN regs[r].keys :
            (regs[r].keys[k].shortkey # EmptyStr
                /\ args[i] \in {ShortTok(regs[r].keys[k].shortkey), LongTok(k)}) =>
                LET alt == Parse(regs, r, [args EXCEPT ![i] = OtherForm(r, k, @)]) IN
                /\ ErrKind(ret.err) \in ErrKinds(alt.errs)
                /\ ParseState(regs) = ParseState(alt.regs)

\* C7 for the flags that have no child holds of the code
C7_NonSubOnly ==
    Parsed =>
        LET r == ret.reg IN
        \A i \in FirstScope : \A k \in DOMAIN regs[r].keys :
            (regs[r].keys[k].shortkey # EmptyStr
                /\ regs[r].keys[k].sub = NilReg
                /\ args[i] \in {ShortTok(regs[r].keys[k].shortkey), LongTok(k)}) =>
                LET alt == Parse(regs, r, [args EXCEPT ![i] = OtherForm(r, k, @)]) IN
                /\ ErrKind(ret.err) \in ErrKinds(alt.errs)
                /\ ParseState(regs) = ParseState(alt.regs)

\* token t is the short or the long form of a flag of r that has a child
IsSubToken(r, t) ==
    /\ Resolves(r, t)
    /\ regs[r].keys[FlagOf(r, t)].sub # NilReg
    /\ t \in {ShortTok(regs[r].keys[FlagOf(r, t)].shortkey), LongTok(FlagOf(r, t))}

\* C8: when the last token of a scope is a Sub flag with no cluster behind it
\* and the tokens before it raise no error, Parse fails with
\* SubRequiresArguments (ErrSub); and after a Parse that succeeded every
\* parsed Sub flag has handed at least one token to its child.
C8_AsStated ==
    Parsed =>
        \A j \in 1..Len(ret.path) :
            LET p == ret.path[j]
                r == p.reg
                E == Eff(p.args)
            IN  /\ (/\ E # <<>>
                     /\ p.at \in {0, Len(p.args)}
                     /\ IsSubToken(r, E[Len(E)])
                     /\ PrefixOK(r, E, Len(E)))
                    => ErrKind(ret.err) = "ErrSub"
                /\ Succeeded =>
                      \A k \in DOMAIN regs[r].keys :
                        (regs[r].keys[k].sub # NilReg /\ regs[r].keys[k].parsed) =>
                            /\ j < Len(ret.path)
                            /\ ret.path[j + 1].reg = regs[r].keys[k].sub
                            /\ Eff(ret.path[j + 1].args) # <<>>

\* the tokens the cluster behind a Sub flag's short key stands for
ClusterRest(r, t) ==
    IF t = LongTok(FlagOf(r, t)) THEN <<>> ELSE Tail(SplitCluster(t))

\* C9: when the token of a Sub flag, with a cluster behind it or tokens after
\* it, arrives while a flag of the scope that is not Required is pending (the
\* tokens before raised no error), the pending flag is consumed with no value
\* and the Sub flag dispatches: its child parses the rest of the cluster and
\* the tokens that follow, and no token is bound as the value of the Sub flag.
C9_AsStated ==
    Parsed =>
        LET r == ret.reg
            E == Eff(args)
        IN  \A i \in 1..Len(E) - 1 :
              (/\ PrefixOK(r, E, i)
               /\ Resolves(r, E[i])
               /\ regs[r].keys[FlagOf(r, E[i])].kind \in {KindOptional, KindSwitch}
               /\ ~regs[r].keys[FlagOf(r, E[i])].excl
               /\ ~regs[r].keys[FlagOf(r, E[i])].parsedval
               /\ Resolves(r, E[i + 1])
               /\ regs[r].keys[FlagOf(r, E[i + 1])].sub # NilReg
               /\ ClusterRest(r, E[i + 1]) \o SubSeq(E, i + 2, Len(E)) # <<>>)
              => /\ regs[r].keys[FlagOf(r, E[i])].parsed
                 /\ ~regs[r].keys[FlagOf(r, E[i + 1])].parsedval
                 /\ Len(ret.path) >= 2
                 /\ ret.path[2].reg = regs[r].keys[FlagOf(r, E[i + 1])].sub
                 /\ Eff(ret.path[2].args)
                        = ClusterRest(r, E[i + 1]) \o SubSeq(E, i + 2, Len(E))

\* t is "-" x c.. with x the short key of a flag of r that has no child
IsNonSubCluster(r, t) ==
    /\ Len(t) >= 3
    /\ t[1] = Dash
    /\ t[2] # Dash
    /\ HasShort(regs, r, <<t[2]>>)
    /\ regs[r].keys[ShortKeyOf(regs, r, <<t[2]>>)].sub = NilReg

\* C10: a single-dash token of more than one character whose first character
\* is the short key of a flag that is no Sub flag, the tokens before it
\* raising no error, makes Parse fail with NotASub; in particular no such
\* Parse succeeds.
C10_AsStated ==
    Parsed =>
        \A p \in Scopes :
            LET E == Own(p) IN
            \A i \in 1..Len(E) :
                (IsNonSubCluster(p.reg, E[i]) /\ PrefixOK(p.reg, E, i)) =>
                    ErrKind(ret.err) = "ErrNotSub"

----------------------------------------------------------------------------
(* C11 *)

\* how many tokens of T resolve to the flag k of r
RECURSIVE TimesNamed(_, _, _)
TimesNamed(r, k, T) ==
    IF T = <<>> THEN 0
    ELSE (IF Resolves(r, Head(T)) /\ FlagOf(r, Head(T)) = k THEN 1 ELSE 0)
            + TimesNamed(r, k, Tail(T))

\* C11: after a Parse that succeeded, each parsed flag of each scope entered
\* was named by exactly one token of its scope (naming a flag twice fails).
C11_AsStated ==
    (Parsed /\ Succeeded) =>
        \A p \in Scopes : \A k \in DOMAIN regs[p.reg].keys :
            regs[p.reg].keys[k].parsed => TimesNamed(p.reg, k, OwnAll(p)) = 1

----------------------------------------------------------------------------
(* C12 *)

\* position i of E holds the token of a Switch of r
SwitchAt(r, E, i) ==
    Resolves(r, E[i]) /\ regs[r].keys[FlagOf(r, E[i])].kind = KindSwitch

\* C12: in every state no Switch has a parsed value, and a Parse in which a
\* pending Switch (the tokens before it raised no error) is followed by a token
\* that resolves to no flag fails with the Switch error naming that Switch.
C12_SwitchNoValue ==
    /\ \A r \in Regs : \A k \in DOMAIN regs[r].keys :
            regs[r].keys[k].kind = KindSwitch => ~regs[r].keys[k].parsedval
    /\ Parsed =>
            \A p \in Scopes :
                LET r == p.reg
                    E == Own(p)
                IN  \A i \in 1..Len(E) :
                      (SwitchAt(r, E, i) /\ PrefixOK(r, E, i)
                            /\ FollowedByValue(r, E, i)) =>
                        ret.err = ErrSwitch(FlagOf(r, E[i]))

\* "-v x" with verbose a Switch: the value x for the pending -v makes Parse
\* fail with the Switch error
C12_Witness ==
    /\ Parsed /\ ret.reg = Root
    /\ regs[Root].keys[VerboseKey].kind = KindSwitch
    /\ args = << ShortTok(<<"v">>), <<"x">> >>
    /\ ret.err = ErrSwitch(VerboseKey)
    /\ ~regs[Root].keys[VerboseKey].parsedval

----------------------------------------------------------------------------
(* C13 *)

\* C13: in every state no flag with a child holds a textual value (no parsed
\* value, the stored value empty), and after a Parse every such flag of a
\* scope entered that is marked parsed dispatched to its child: the next scope
\* is its child's.
C13_AsStated ==
    /\ \A r \in Regs : \A k \in DOMAIN regs[r].keys :
            regs[r].keys[k].sub # NilReg =>
                ~regs[r].keys[k].parsedval /\ regs[r].keys[k].value = EmptyStr
    /\ Parsed =>
            \A j \in 1..Len(ret.path) : \A k \in DOMAIN regs[ret.path[j].reg].keys :
                LET f == regs[ret.path[j].reg].keys[k] IN
                (f.sub # NilReg /\ f.parsed) =>
                    /\ j < Len(ret.path)
                    /\ ret.path[j + 1].reg = f.sub

----------------------------------------------------------------------------
(* C14 *)

\* C14: a Parse that follows a Parse of the same registry with the same
\* command line returns an error of the same kind and leaves the same result
\* tree (Flags.Parsed, through the Sub flags).
C14_Idempotent ==
    [][(Parsed /\ ret'.op = "Parse" /\ ret'.reg = ret.reg /\ args' = args) =>
            /\ ErrKind(ret'.err) = ErrKind(ret.err)
            /\ FlagsParsed(regs', ret.reg) = FlagsParsed(regs, ret.reg)]_vars

\* Root has parsed "-Sim x": its tree holds the child's tree, with a value and
\* a nil, and the next Parse has that to reproduce
C14_Witness ==
    /\ Parsed /\ Succeeded /\ ret.reg = Root
    /\ args = << <<"-", "S", "i", "m">>, <<"x">> >>
    /\ FlagsParsed(regs, Root) =
            (SyncKey :> <<"map", (InstallKey :> <<"nil">>) @@
                                 (ModeKey :> <<"string", <<"x">> >>)>>)

----------------------------------------------------------------------------
(* C15 *)

\* r and the registries below it
RECURSIVE Below(_, _)
Below(F, r) == {r} \cup UNION {Below(F, s) : s \in SubsOf(F, r)}

\* the registries as constructed, with the definitions of regs
Fresh ==
    Build(regs[Child].keys[InstallKey].kind, regs[Root].keys[VerboseKey].kind,
          regs[Root].keys[VerboseKey].excl)

\* C15: whatever Parse calls came before, a Parse returns what the same Parse
\* of the registries as constructed returns, and leaves every flag of its
\* registry and of the registries below it as that Parse leaves it.
C15_AsOnFresh ==
    Parsed =>
        LET fresh == Parse(Fresh, ret.reg, args) IN
        /\ ret.err \in fresh.errs
        /\ \A r \in Below(regs, ret.reg) : regs[r].keys = fresh.regs[r].keys

\* Root has parsed "-v" after a Parse that went through Child with "-i":
\* install, parsed then, is unparsed now
C15_Witness ==
    /\ Parsed /\ ret.reg = Root
    /\ args = << ShortTok(<<"v">>) >>
    /\ regs[Child].last = ShortTok(<<"i">>)
    /\ ~regs[Child].keys[InstallKey].parsed

----------------------------------------------------------------------------
(* C16 *)

\* the flag is as NewFlag left it: not parsed, no parsed value, no value
AsConstructed(f) == ~f.parsed /\ ~f.parsedval /\ f.value = EmptyStr

\* some token of a scope of the last Parse on registry r names its flag k
NamedInScope(r, k) ==
    \E p \in Scopes : p.reg = r /\ TimesNamed(r, k, OwnAll(p)) >= 1

\* C16 as stated: after a Parse that returned an error every flag of the
\* registry, and of the registries below it, is as constructed.
C16_AsStated ==
    (Parsed /\ ~Succeeded) =>
        \A r \in Below(regs, ret.reg) : \A k \in DOMAIN regs[r].keys :
            AsConstructed(regs[r].keys[k])

\* C16, amended: after a Parse that returned an error every flag of the
\* registry, and of the registries below it, that no token of its scope named
\* is as constructed (the flags consumed before the failure stay parsed).
C16_UnnamedAsConstructed ==
    (Parsed /\ ~Succeeded) =>
        \A r \in Below(regs, ret.reg) : \A k \in DOMAIN regs[r].keys :
            ~NamedInScope(r, k) => AsConstructed(regs[r].keys[k])

\* Child with install Required has parsed "-m x -i": Parse failed on -i, mode
\* stays parsed with its value
C16_Witness ==
    /\ Parsed /\ ret.reg = Child
    /\ args = << ShortTok(<<"m">>), <<"x">>, ShortTok(<<"i">>) >>
    /\ ret.err = ErrReqVal(ShortTok(<<"i">>))
    /\ Bound(Child, ModeKey, <<"x">>)
    /\ AsConstructed(regs[Child].keys[InstallKey])

----------------------------------------------------------------------------
(* C17 *)

DefOps == {"Def", "Switch", "Opt", "Req", "Sub"}

\* the step is a call of Def, Switch, Opt, Req or Sub; args' = <<key, shortkey>>
DefStep == ret'.op \in DefOps

KeyDefined(r, key) == key \in DOMAIN regs[r].keys

ShortBound(r, shortkey) == shortkey # EmptyStr /\ shortkey \in DOMAIN regs[r].short

\* C17 as stated: a definition call fails with InvalidKey when the key is
\* empty, with DuplicateKey when the key is defined, with DupShortKey when the
\* shortkey is not empty and bound; a failing call leaves the registries as
\* they were.
C17_AsStated ==
    [][DefStep =>
        /\ args'[1] = EmptyStr => ret'.err = ErrInvalid
        /\ KeyDefined(ret'.reg, args'[1]) => ret'.err = ErrDupKey(args'[1])
        /\ ShortBound(ret'.reg, args'[2]) => ret'.err = ErrDupShort(args'[2])
        /\ ret'.err # NoErr => regs' = regs]_vars

\* C17, amended: InvalidKey when the key is empty; otherwise DuplicateKey when
\* the key is defined; otherwise DupShortKey when the shortkey is not empty
\* and bound; a failing call leaves the registries as they were.
C17_DefErrors ==
    [][DefStep =>
        /\ args'[1] = EmptyStr => ret'.err = ErrInvalid
        /\ KeyDefined(ret'.reg, args'[1]) => ret'.err = ErrDupKey(args'[1])
        /\ (args'[1] # EmptyStr /\ ~KeyDefined(ret'.reg, args'[1])
                /\ ShortBound(ret'.reg, args'[2]))
            => ret'.err = ErrDupShort(args'[2])
        /\ ret'.err # NoErr => regs' = regs]_vars

\* Sub("sy", "v", ..) on a Root that holds "ve" under "v" has failed with
\* DupShortKey and "sy" is not defined
C17_Witness ==
    /\ ret.op = "Sub" /\ ret.reg = Root
    /\ args = <<SyncKey, <<"v">> >>
    /\ ret.err = ErrDupShort(<<"v">>)
    /\ DOMAIN regs[Root].keys = {VerboseKey}
    /\ regs[Root].short = (<<"v">> :> VerboseKey)

----------------------------------------------------------------------------
(* C18, C19 *)

\* the keys of a sequence of keys
KeysOf(ks) == {ks[i] : i \in 1..Len(ks)}

\* C18: a call of Exclusive that succeeds leaves exclusive exactly the flags
\* of its registry whose keys it was given, and leaves every other registry
\* as it was.
C18_ExclusiveSet ==
    [][(ret'.op = "Exclusive" /\ ret'.err = NoErr) =>
        /\ \A k \in DOMAIN regs'[ret'.reg].keys :
                regs'[ret'.reg].keys[k].excl <=> k \in KeysOf(args')
        /\ \A o \in Regs \ {ret'.reg} : regs'[o] = regs[o]]_vars

\* Exclusive("ve") has succeeded on a Root that holds "ve" and "sy", while
\* install is exclusive in Child
C18_Witness ==
    /\ ret.op = "Exclusive" /\ ret.reg = Root /\ ret.err = NoErr
    /\ args = <<VerboseKey>>
    /\ DOMAIN regs[Root].keys = {VerboseKey, SyncKey}
    /\ regs[Root].keys[VerboseKey].excl
    /\ ~regs[Root].keys[SyncKey].excl
    /\ regs[Child].keys[InstallKey].excl

\* C19: after a call of Exclusive that failed with NotFound no flag of the
\* registry is exclusive.
C19_AsStated ==
    (ret.op = "Exclusive" /\ ErrKind(ret.err) = "ErrNotFound") =>
        \A k \in DOMAIN regs[ret.reg].keys : ~regs[ret.reg].keys[k].excl

----------------------------------------------------------------------------
(* C20 *)

\* the command line with every token trimmed
Trimmed(a) == [i \in 1..Len(a) |-> TrimSpace(a[i])]

\* C20: a Parse of a command line returns an error of the kind, and leaves
\* the parsed state, that the Parse of the same command line with the leading
\* and trailing spaces of its tokens removed returns and leaves.
C20_AsStated ==
    Parsed =>
        LET bare == Parse(regs, ret.reg, Trimmed(args)) IN
        /\ ErrKind(ret.err) \in ErrKinds(bare.errs)
        /\ ParseState(regs) = ParseState(bare.regs)

----------------------------------------------------------------------------
(* C21, C22, C23 *)

\* the token is empty or holds spaces only
Blank(t) == TrimSpace(t) = EmptyStr

NotBlank(t) == ~Blank(t)

\* C21: a Parse of a command line returns an error of the kind, and leaves
\* the parsed state, that the Parse of the same command line without its
\* empty and blank tokens returns and leaves.
C21_AsStated ==
    Parsed =>
        LET bare == Parse(regs, ret.reg, SelectSeq(args, NotBlank)) IN
        /\ ErrKind(ret.err) \in ErrKinds(bare.errs)
        /\ ParseState(regs) = ParseState(bare.regs)

\* C22: after a Parse that succeeded, in its registry and in every registry
\* below it at most one exclusive flag is parsed.
C22_AsStated ==
    (Parsed /\ Succeeded) =>
        \A r \in Below(regs, ret.reg) : Cardinality(ParsedExcl(regs, r)) <= 1

\* C23: the error Parse returns is of another kind than the error a
\* definition call returns for a key that is defined.
C23_AsStated ==
    Parsed =>
        \A k \in DOMAIN regs[ret.reg].keys :
            ErrKind(ret.err) #
                ErrKind(Def(regs, ret.reg, k, EmptyStr, EmptyStr, KindOptional).err)

----------------------------------------------------------------------------
(* C26 *)

\* the last Parse dispatched from r through its flag k
Fired(r, k) ==
    \E p \in Scopes :
        /\ p.reg = r
        /\ p.at # 0
        /\ FlagOf(r, TrimSpace(p.args[p.at])) = k

\* C26: after a Parse, the result tree of its registry and of each registry
\* below holds exactly the keys of the parsed flags; the entry of a flag
\* parsed with a value is that value, the entry of a flag parsed without one
\* is nil, the entry of a Sub flag that fired is the result tree of its child.
C26_AsStated ==
    Parsed =>
        \A r \in Below(regs, ret.reg) :
            LET tree == FlagsParsed(regs, r) IN
            /\ DOMAIN tree = {k \in DOMAIN regs[r].keys : regs[r].keys[k].parsed}
            /\ \A k \in DOMAIN tree :
                    LET f == regs[r].keys[k] IN
                    IF f.parsedval THEN tree[k] = <<"string", f.value>>
                    ELSE IF Fired(r, k)
                        THEN tree[k] = <<"map", FlagsParsed(regs, f.sub)>>
                    ELSE tree[k] = <<"nil">>

----------------------------------------------------------------------------
(* C27 *)

\* Flags.Parsed of r reports something as parsed
ReportsParsed(r) == DOMAIN FlagsParsed(regs, r) # {}

----------------------------------------------------------------------------
(* C28 *)

\* the scopes of the last Parse that ended by dispatching to a child
Dispatched == {p \in Scopes : p.at # 0}

\* the Sub flag scope p dispatched on, its child and the child's arguments
SubKeyOf(p) == FlagOf(p.reg, TrimSpace(p.args[p.at]))

ChildOf(p) == regs[p.reg].keys[SubKeyOf(p)].sub

ChildArgs(p) ==
    SubArgs(p.args, p.at, TrimSpace(p.args[p.at]),
            matchcombined(regs, p.reg, TrimSpace(p.args[p.at])))

----------------------------------------------------------------------------
(* C29, C30 *)

\* the loop of r reaches position i of E with no token saved: the tokens
\* before raise no error and the last of them, if any, was taken as a value
NothingPending(r, E, i) ==
    PrefixOK(r, E, i) /\ (i = 1 \/ ~Resolves(r, E[i - 1]))

\* C29: a token that resolves to no flag of its scope and arrives while no
\* token is saved makes Parse fail with NotFound naming it, whatever follows;
\* the tokens "-" and "--" are such tokens.
C29_NotFound ==
    Parsed =>
        \A p \in Scopes :
            LET r == p.reg
                E == Own(p)
            IN  \A i \in 1..Len(E) :
                  (NothingPending(r, E, i) /\ ~Resolves(r, E[i])) =>
                      ret.err = ErrNotFound(E[i])

\* "--" followed by the token of a flag: NotFound names "--"
C29_Witness ==
    /\ Parsed /\ ret.reg = Root
    /\ args = << <<Dash, Dash>>, ShortTok(<<"v">>) >>
    /\ ret.err = ErrNotFound(<<Dash, Dash>>)

\* position i of E holds the token of an Optional or Required flag of r that
\* the loop saves
PendingAt(r, E, i) ==
    /\ PrefixOK(r, E, i)
    /\ Resolves(r, E[i])
    /\ regs[r].keys[FlagOf(r, E[i])].kind \in {KindOptional, KindRequired}

\* the token after position i of E has a leading dash and resolves to no flag
DashValueAfter(r, E, i) ==
    i < Len(E) /\ HasPrefix(E[i + 1], <<Dash>>) /\ ~Resolves(r, E[i + 1])

\* C30 as stated: a token with a leading dash that resolves to no flag and
\* arrives while an Optional or Required flag is pending is bound as the value
\* of that flag, and nothing is pending after it.
C30_AsStated ==
    Parsed =>
        \A p \in Scopes :
            LET r == p.reg
                E == Own(p)
            IN  \A i \in 1..Len(E) :
                  (PendingAt(r, E, i) /\ DashValueAfter(r, E, i)) =>
                      /\ Bound(r, FlagOf(r, E[i]), E[i + 1])
                      /\ PrefixOK(r, E, i + 2)

\* C30, amended: such a token is bound as the value of the pending flag and
\* nothing is pending after it, unless consume rejects the pending flag as a
\* duplicate or as exclusive to a flag already parsed.
C30_DashValue ==
    Parsed =>
        \A p \in Scopes :
            LET r == p.reg
                E == Own(p)
            IN  \A i \in 1..Len(E) :
                  (PendingAt(r, E, i) /\ DashValueAfter(r, E, i)) =>
                      \/ /\ Bound(r, FlagOf(r, E[i]), E[i + 1])
                         /\ PrefixOK(r, E, i + 2)
                      \/ ret.err = ErrDupKey(FlagOf(r, E[i]))
                      \/ /\ ErrKind(ret.err) = "ErrExcl"
                         /\ regs[r].keys[FlagOf(r, E[i])].excl

\* Child parses "-m --?": success, mode holds "--?"
C30_Witness ==
    /\ Parsed /\ Succeeded /\ ret.reg = Child
    /\ args = << ShortTok(<<"m">>), <<Dash, Dash, "?">> >>
    /\ Bound(Child, ModeKey, <<Dash, Dash, "?">>)

----------------------------------------------------------------------------
(* C24 *)

\* C24 as stated: Parse terminates on every registry the definition calls can
\* build.  A call of reset made for a registry whose reset is still in
\* progress goes through the flags that led to it again and makes the same
\* call, so Parse returns only if no registry is reset inside its own reset.
C24_AsStated ==
    \A m, n \in 1..Len(stack) : stack[m].reg = stack[n].reg => m = n

----------------------------------------------------------------------------
(* C25 *)

Other(p) == CHOOSE q \in Procs : q # p

Done(p) == procs[p].pc = "done"

\* the calls of p and q share no registry
Independent(p, q) ==
    Below(regs, procs[p].top) \cap Below(regs, procs[q].top) = {}

\* C25: a Parse that ran beside a Parse on an independent registry, or beside
\* none, returns what it returns alone and leaves its registries as it leaves
\* them alone.
C25_Independent ==
    \A p \in Procs :
        (Done(p) /\ (procs[Other(p)].pc = "idle" \/ Independent(p, Other(p)))) =>
            LET res == Parse(regs, procs[p].top, procs[p].targs) IN
            /\ procs[p].err \in res.errs
            /\ \A r \in Below(regs, procs[p].top) :
                    ParseState(res.regs)[r] = ParseState(regs)[r]

\* the outcome is the one of p's Parse run to its end before q's began
InOrder(p, q) ==
    LET s1 == Parse(reset(reset(regs, Root), Child), procs[p].top, procs[p].targs)
        s2 == Parse(s1.regs, procs[q].top, procs[q].targs)
    IN  /\ procs[p].err \in s1.errs
        /\ procs[q].err \in s2.errs
        /\ ParseState(regs) = ParseState(s2.regs)

\* two calls on registries they share have returned, with an outcome neither
\* order of the two calls gives
C25_Witness ==
    /\ Done(1) /\ Done(2)
    /\ ~Independent(1, 2)
    /\ ~InOrder(1, 2)
    /\ ~InOrder(2, 1)

----------------------------------------------------------------------------
(* C31 *)

\* token t is the key or the short key of a flag of q, and registry r
\* defines neither that key nor that short key
ParentOnly(q, r, t) ==
    \E k \in DOMAIN regs[q].keys :
        /\ t \in {LongTok(k), ShortTok(regs[q].keys[k].shortkey)}
        /\ k \notin DOMAIN regs[r].keys
        /\ regs[q].keys[k].shortkey \notin DOMAIN regs[r].short

\* C31: in the scope a Sub flag dispatched to, a token that is the key or the
\* short key of a flag only the parent defines resolves to no flag of the
\* child, and Parse fails with NotFound naming it when it arrives with
\* nothing pending.
C31_ScopedResolution ==
    Parsed =>
        \A j \in 1..(Len(ret.path) - 1) :
            LET par == ret.path[j]
                r   == ChildOf(par)
                E   == Own(ret.path[j + 1])
            IN  \A i \in 1..Len(E) :
                  ParentOnly(par.reg, r, E[i]) =>
                      /\ ~Resolves(r, E[i])
                      /\ NothingPending(r, E, i) => ret.err = ErrNotFound(E[i])

\* "-Sv": the cluster hands "-v" to the child, which has no such flag
C31_Witness ==
    /\ Parsed /\ ret.reg = Root
    /\ args = << <<"-", "S", "v">> >>
    /\ Len(ret.path) = 2
    /\ ret.err = ErrNotFound(ShortTok(<<"v">>))

----------------------------------------------------------------------------
(* C32 *)

\* t is a single dash and a body
IsClusterToken(t) ==
    Len(t) >= 2 /\ t[1] = Dash /\ t[2] # Dash

\* every character of body is a short key: of r up to a Sub flag, of the
\* child of the Sub flag after it
RECURSIVE AllResolve(_, _)
AllResolve(r, body) ==
    IF body = <<>> THEN TRUE
    ELSE IF ~HasShort(regs, r, <<Head(body)>>) THEN FALSE
    ELSE LET sub == regs[r].keys[ShortKeyOf(regs, r, <<Head(body)>>)].sub IN
         AllResolve(IF sub # NilReg THEN sub ELSE r, Tail(body))

\* C32 as stated: a token of one dash and a body with a character that is no
\* short key of the registry it falls to is no cluster match, and the token
\* does not resolve to the flag of its first character.
C32_AsStated ==
    \A r \in Regs : \A i \in 1..Len(args) :
        (IsClusterToken(args[i]) /\ ~AllResolve(r, Tail(args[i]))) =>
            /\ ~matchcombined(regs, r, Tail(args[i]))
            /\ ~Resolves(r, args[i])

----------------------------------------------------------------------------
(* C33 *)

\* C33 as stated: in every registry the definition calls build, a flag is of
\* kind Sub exactly when it has a child registry.
C33_AsStated ==
    \A r \in Regs : \A k \in DOMAIN regs[r].keys :
        (regs[r].keys[k].kind = KindSub) <=> (regs[r].keys[k].sub # NilReg)

----------------------------------------------------------------------------
(* C34 *)

\* C34: after any definition calls, failed ones included, every flag of a
\* registry is stored under its own key, no two flags share a short key that
\* is not empty, and the short-key index holds s -> k exactly when the flag
\* under k exists and has the short key s.
C34_IndexConsistent ==
    \A r \in Regs :
        LET keys  == regs[r].keys
            short == regs[r].short
        IN
        /\ \A k \in DOMAIN keys : keys[k].key = k
        /\ \A k1, k2 \in DOMAIN keys :
                (keys[k1].shortkey # EmptyStr /\ keys[k1].shortkey = keys[k2].shortkey)
                    => k1 = k2
        /\ \A s \in DOMAIN short :
                /\ s # EmptyStr
                /\ short[s] \in DOMAIN keys
                /\ keys[short[s]].shortkey = s
        /\ \A k \in DOMAIN keys :
                keys[k].shortkey # EmptyStr =>
                    /\ keys[k].shortkey \in DOMAIN short
                    /\ short[keys[k].shortkey] = k

\* Root holds "ve" under "v" and "sy" with no short key, and a further
\* definition of "sy" has failed with DuplicateKey
C34_Witness ==
    /\ ret.op = "Opt" /\ ret.reg = Root
    /\ ret.err = ErrDupKey(SyncKey)
    /\ DOMAIN regs[Root].keys = {VerboseKey, SyncKey}
    /\ regs[Root].short = (<<"v">> :> VerboseKey)
    /\ regs[Root].keys[SyncKey].shortkey = EmptyStr

----------------------------------------------------------------------------
(* C35 *)

\* C35 as stated: Parse is deterministic: the error a Parse returned, kind
\* and named key, is the only one a Parse of the same command line on the
\* same definitions can return.
C35_AsStated ==
    Parsed => Parse(regs, ret.reg, args).errs = {ret.err}

----------------------------------------------------------------------------
(* C36 *)

\* C36: in every state every flag with a parsed value is parsed, and its
\* stored value is not empty exactly when it has a parsed value.
C36_ValueFields ==
    \A r \in Regs : \A k \in DOMAIN regs[r].keys :
        LET f == regs[r].keys[k] IN
        /\ f.parsedval => f.parsed
        /\ (f.value # EmptyStr) <=> f.parsedval

\* "-Sim x": the Sub flag and install are parsed with no value, mode holds x
C36_Witness ==
    /\ Parsed /\ ret.reg = Root
    /\ args = << <<"-", "S", "i", "m">>, <<"x">> >>
    /\ Bound(Child, ModeKey, <<"x">>)
    /\ regs[Root].keys[SyncKey].parsed /\ ~regs[Root].keys[SyncKey].parsedval
    /\ regs[Child].keys[InstallKey].parsed /\ ~regs[Child].keys[InstallKey].parsedval

----------------------------------------------------------------------------
(* C37 *)

\* C37: a flag of the parent that the tokens before a dispatch left parsed is
\* parsed after the child's Parse has returned, with the same value, whether
\* the child succeeded or failed.
C37_ParentKept ==
    Parsed =>
        \A p \in Dispatched :
            LET pre == Parse(regs, p.reg, SubSeq(p.args, 1, p.at - 1)).regs IN
            \A k \in DOMAIN regs[p.reg].keys :
                pre[p.reg].keys[k].parsed =>
                    /\ regs[p.reg].keys[k].parsed
                    /\ regs[p.reg].keys[k].parsedval = pre[p.reg].keys[k].parsedval
                    /\ regs[p.reg].keys[k].value = pre[p.reg].keys[k].value

\* "-v x -Si" with verbose and install Required: the child fails for want of
\* a value and verbose still holds x
C37_Witness ==
    /\ Parsed /\ ret.reg = Root
    /\ args = << ShortTok(<<"v">>), <<"x">>, <<"-", "S", "i">> >>
    /\ Dispatched # {}
    /\ ret.err = ErrReqVal(ShortTok(<<"i">>))
    /\ Bound(Root, VerboseKey, <<"x">>)

----------------------------------------------------------------------------
(* C38 *)

\* what the definition calls set: the keys, the short-key index and, per
\* flag, key, short key, default, kind, exclusivity and child
Defs(F) ==
    [r \in Regs |->
        [short |-> F[r].short,
         keys  |-> [k \in DOMAIN F[r].keys |->
                      [key |-> F[r].keys[k].key, shortkey |-> F[r].keys[k].shortkey,
                       defval |-> F[r].keys[k].defval, kind |-> F[r].keys[k].kind,
                       excl |-> F[r].keys[k].excl, sub |-> F[r].keys[k].sub]]]]

====
